---- MODULE Spec2Model ----
(***************************************************************************)
(* Model of the conversation-cleaning pipeline of clean.py: the batch loop *)
(* of main, clean_conversation, the language gate _is_english, the rule    *)
(* chain of _clean_text and the placeholder rewriting of sub_names.        *)
(*                                                                         *)
(* A Python str is modelled as a sequence of code points.  An ASCII code   *)
(* point is the one-character string that holds it; a non-ASCII code point *)
(* is the string "U+XXXX" naming it.                                       *)
(***************************************************************************)
EXTENDS Integers, Sequences, FiniteSets, TLC

(***************************************************************************)
(* Code points and character classes                                       *)
(***************************************************************************)

\* The code points clean.py names in its patterns and replacements.
NL == "\n"
BSL == "\\"
HELLIP == "U+2026"
EMDASH == "U+2014"
NBSP == "U+00A0"
ZWSP == "U+200B"
ZWJ == "U+200D"
ENSP == "U+2002"
BOM == "U+FEFF"
C1_9D == "U+009D"
LRM == "U+200E"

\* [a-z] and [A-Z] of UNSPACED_PUNCTUATION_PATTERN.
Lower ==
    {"a","b","c","d","e","f","g","h","i","j","k","l","m",
     "n","o","p","q","r","s","t","u","v","w","x","y","z"}

Upper ==
    {"A","B","C","D","E","F","G","H","I","J","K","L","M",
     "N","O","P","Q","R","S","T","U","V","W","X","Y","Z"}

Digit == {"0","1","2","3","4","5","6","7","8","9"}

\* \w of the re module, as far as the \b of line 117 needs it.
WordChar == Lower \cup Upper \cup Digit \cup {"_"}

\* \s of the re module and the characters str.strip() removes: of the code
\* points above, NBSP and ENSP are whitespace (str.isspace), the others not.
Whitespace == {" ", NL, "\t", NBSP, ENSP}

\* (\.|\-|\*|!) of EXCESSIVE_CHARS_PATTERN.
LoudChars == {".", "-", "*", "!"}

\* (\.|!|\?) of UNSPACED_PUNCTUATION_PATTERN.
Terminators == {".", "!", "?"}

\* [—-] of WEIRD_DASH_PATTERN.
Dashes == {EMDASH, "-"}

(***************************************************************************)
(* str methods                                                             *)
(***************************************************************************)

\* s[p:].startswith(pat), p counted from 1.
StartsWithAt(s, p, pat) ==
    /\ p + Len(pat) - 1 <= Len(s)
    /\ SubSeq(s, p, p + Len(pat) - 1) = pat

\* The index of the last element of the longest run of elements of C that
\* starts at p; p - 1 when s[p] is not in C.
RECURSIVE RunEnd(_, _, _)
RunEnd(s, p, C) ==
    IF p <= Len(s) /\ s[p] \in C THEN RunEnd(s, p + 1, C) ELSE p - 1

\* str.replace(old, new) for a non-empty old: every non-overlapping
\* occurrence, leftmost first, in one pass (the text put in is not rescanned).
RECURSIVE replace_from(_, _, _, _)
replace_from(s, p, old, new) ==
    IF p > Len(s) THEN <<>>
    ELSE IF StartsWithAt(s, p, old)
         THEN new \o replace_from(s, p + Len(old), old, new)
         ELSE <<s[p]>> \o replace_from(s, p + 1, old, new)

str_replace(s, old, new) == replace_from(s, 1, old, new)

RECURSIVE lstrip(_)
lstrip(s) ==
    IF s # <<>> /\ Head(s) \in Whitespace THEN lstrip(Tail(s)) ELSE s

RECURSIVE rstrip(_)
rstrip(s) ==
    IF s # <<>> /\ s[Len(s)] \in Whitespace
    THEN rstrip(SubSeq(s, 1, Len(s) - 1))
    ELSE s

strip(s) == rstrip(lstrip(s))

(***************************************************************************)
(* The regular-expression substitutions of _clean_text, each as re.sub     *)
(* applies it: a scan from the left, the leftmost match replaced, the scan *)
(* resumed after the match.                                                *)
(***************************************************************************)

\* EXTRA_NEWLINE_PATTERN.sub("\n\n", s): \n{3,}
RECURSIVE sub_extra_newline(_, _)
sub_extra_newline(s, p) ==
    IF p > Len(s) THEN <<>>
    ELSE LET e == RunEnd(s, p, {NL})
         IN  IF e - p + 1 >= 3
             THEN <<NL, NL>> \o sub_extra_newline(s, e + 1)
             ELSE <<s[p]>> \o sub_extra_newline(s, p + 1)

\* The lazy .*?\) from k: the first ")" with no newline before it, 0 if none.
RECURSIVE FindParenClose(_, _)
FindParenClose(s, k) ==
    IF k > Len(s) THEN 0
    ELSE IF s[k] = ")" THEN k
    ELSE IF s[k] = NL THEN 0
    ELSE FindParenClose(s, k + 1)

\* The lazy .*?\]\( from j: the first "](" with no newline before it from
\* which the rest of the pattern matches, 0 if none.
RECURSIVE FindBracketClose(_, _)
FindBracketClose(s, j) ==
    IF j > Len(s) THEN 0
    ELSE IF /\ s[j] = "]"
            /\ j + 1 <= Len(s)
            /\ s[j + 1] = "("
            /\ FindParenClose(s, j + 2) # 0
         THEN j
    ELSE IF s[j] = NL THEN 0
    ELSE FindBracketClose(s, j + 1)

\* The end of the match of !\[.*?\]\(.*?\)\n* at p, 0 if it does not match.
ImageMatchEnd(s, p) ==
    IF p + 1 <= Len(s) /\ s[p] = "!" /\ s[p + 1] = "["
    THEN LET j == FindBracketClose(s, p + 2)
         IN  IF j = 0 THEN 0
             ELSE RunEnd(s, FindParenClose(s, j + 2) + 1, {NL})
    ELSE 0

\* MARKDOWN_IMAGE_EMBED_PATTERN.sub("", s)
RECURSIVE sub_markdown_image(_, _)
sub_markdown_image(s, p) ==
    IF p > Len(s) THEN <<>>
    ELSE LET e == ImageMatchEnd(s, p)
         IN  IF e # 0
             THEN sub_markdown_image(s, e + 1)
             ELSE <<s[p]>> \o sub_markdown_image(s, p + 1)

\* re.sub(r"(\S)(…|\.\.\.)(\S)", "\\1\\2 \\3", s)
RECURSIVE sub_ellipsis_space(_, _)
sub_ellipsis_space(s, p) ==
    IF p > Len(s) THEN <<>>
    ELSE IF /\ s[p] \notin Whitespace
            /\ p + 2 <= Len(s)
            /\ s[p + 1] = HELLIP
            /\ s[p + 2] \notin Whitespace
         THEN <<s[p], HELLIP, " ", s[p + 2]>> \o sub_ellipsis_space(s, p + 3)
    ELSE IF /\ s[p] \notin Whitespace
            /\ p + 4 <= Len(s)
            /\ SubSeq(s, p + 1, p + 3) = <<".", ".", ".">>
            /\ s[p + 4] \notin Whitespace
         THEN <<s[p], ".", ".", ".", " ", s[p + 4]>>
              \o sub_ellipsis_space(s, p + 5)
    ELSE <<s[p]>> \o sub_ellipsis_space(s, p + 1)

\* EXCESSIVE_CHARS_PATTERN.sub(r"\1\1\1", s): (\.|\-|\*|!)\1{3,}
RECURSIVE sub_excessive_chars(_, _)
sub_excessive_chars(s, p) ==
    IF p > Len(s) THEN <<>>
    ELSE LET e == RunEnd(s, p, {s[p]})
         IN  IF s[p] \in LoudChars /\ e - p + 1 >= 4
             THEN <<s[p], s[p], s[p]>> \o sub_excessive_chars(s, e + 1)
             ELSE <<s[p]>> \o sub_excessive_chars(s, p + 1)

\* \b between s[p - 1] and s[p] when s[p - 1] or s[p] is a period: the other
\* side has to be a word character.
WordBefore(s, p) == p > 1 /\ s[p - 1] \in WordChar

WordAt(s, p) == p <= Len(s) /\ s[p] \in WordChar

\* re.sub(r'\b(\.\.\.?)\b', '... ', s): three periods are tried before two.
RECURSIVE sub_word_dots(_, _)
sub_word_dots(s, p) ==
    IF p > Len(s) THEN <<>>
    ELSE IF /\ WordBefore(s, p)
            /\ StartsWithAt(s, p, <<".", ".", ".">>)
            /\ WordAt(s, p + 3)
         THEN <<".", ".", ".", " ">> \o sub_word_dots(s, p + 3)
    ELSE IF /\ WordBefore(s, p)
            /\ StartsWithAt(s, p, <<".", ".">>)
            /\ WordAt(s, p + 2)
         THEN <<".", ".", ".", " ">> \o sub_word_dots(s, p + 2)
    ELSE <<s[p]>> \o sub_word_dots(s, p + 1)

\* UNSPACED_PUNCTUATION_PATTERN.sub(r"\1\2 \3", s): ([a-z]{2,})(\.|!|\?)([A-Z])
RECURSIVE sub_unspaced_punctuation(_, _)
sub_unspaced_punctuation(s, p) ==
    IF p > Len(s) THEN <<>>
    ELSE LET e == RunEnd(s, p, Lower)
         IN  IF /\ e - p + 1 >= 2
                /\ e + 2 <= Len(s)
                /\ s[e + 1] \in Terminators
                /\ s[e + 2] \in Upper
             THEN SubSeq(s, p, e + 1) \o <<" ", s[e + 2]>>
                  \o sub_unspaced_punctuation(s, e + 3)
             ELSE <<s[p]>> \o sub_unspaced_punctuation(s, p + 1)

\* re.sub(r" *\n", "\n", s)
RECURSIVE sub_space_newline(_, _)
sub_space_newline(s, p) ==
    IF p > Len(s) THEN <<>>
    ELSE LET e == RunEnd(s, p, {" "})
         IN  IF e + 1 <= Len(s) /\ s[e + 1] = NL
             THEN <<NL>> \o sub_space_newline(s, e + 2)
             ELSE <<s[p]>> \o sub_space_newline(s, p + 1)

\* ^ under re.MULTILINE.
AtLineStart(s, p) == p = 1 \/ s[p - 1] = NL

\* Where the dashes of a match of ^\s?[—-]+\s* at p begin, 0 if no match.
DashStart(s, p) ==
    IF ~AtLineStart(s, p) THEN 0
    ELSE IF s[p] \in Dashes THEN p
    ELSE IF s[p] \in Whitespace /\ p + 1 <= Len(s) /\ s[p + 1] \in Dashes
         THEN p + 1
    ELSE 0

\* WEIRD_DASH_PATTERN.sub("", s)
RECURSIVE sub_weird_dash(_, _)
sub_weird_dash(s, p) ==
    IF p > Len(s) THEN <<>>
    ELSE LET d == DashStart(s, p)
         IN  IF d # 0
             THEN sub_weird_dash(
                      s, RunEnd(s, RunEnd(s, d, Dashes) + 1, Whitespace) + 1)
             ELSE <<s[p]>> \o sub_weird_dash(s, p + 1)

(***************************************************************************)
(* _clean_text                                                             *)
(***************************************************************************)

\* ftfy.fix_text under ftfy_config.  What reaches it holds none of the code
\* points lines 128-134 remove; on printable ASCII without "&" and on the
\* ellipsis and em-dash glyphs the repair pass changes nothing.
ftfy_fix_text(s) == s

\* Lines 107-113: strip, newline runs, image embeds, ellipsis spacing, loud
\* characters.
clean_structure(text) ==
    LET m1 == strip(text)
        m2 == sub_extra_newline(m1, 1)
        m3 == sub_markdown_image(m2, 1)
        m4 == sub_ellipsis_space(m3, 1)
    IN  sub_excessive_chars(m4, 1)

\* Lines 115-124: ellipsis and punctuation spacing.
clean_punctuation(m) ==
    LET m1 == str_replace(m, <<" ", ".", ".", " ">>, <<".", ".", ".", " ">>)
        m2 == str_replace(m1, <<" ", ".", ".", ".", " ">>,
                          <<".", ".", ".", " ">>)
        m3 == sub_word_dots(m2, 1)
        m4 == str_replace(m3, <<" ", ".", " ">>, <<".", " ">>)
        m5 == str_replace(m4, <<" ", ",", " ">>, <<",", " ">>)
        m6 == str_replace(m5, <<" ", "?", " ">>, <<"?", " ">>)
        m7 == str_replace(m6, <<" ", "!", " ">>, <<"!", " ">>)
    IN  sub_unspaced_punctuation(m7, 1)

\* Lines 128-134: invisible code points.
clean_invisible(m) ==
    LET m1 == str_replace(m, <<NBSP>>, <<>>)
        m2 == str_replace(m1, <<ZWSP>>, <<>>)
        m3 == str_replace(m2, <<ZWJ>>, <<" ">>)
        m4 == str_replace(m3, <<ENSP>>, <<" ">>)
        m5 == str_replace(m4, <<BOM>>, <<" ">>)
        m6 == str_replace(m5, <<C1_9D>>, <<>>)
    IN  str_replace(m6, <<LRM>>, <<>>)

\* Line 139: one pass, so a run of three spaces leaves two.
collapse_double_space(m) == str_replace(m, <<" ", " ">>, <<" ">>)

\* Lines 141-149: escape sequences, spaces before newlines, glyphs, dashes.
clean_escapes(m) ==
    LET m1 == str_replace(m, <<BSL, "n">>, <<NL>>)
        m2 == str_replace(m1, <<BSL, "~">>, <<"~">>)
        m3 == str_replace(m2, <<BSL, "-">>, <<"-">>)
        m4 == sub_space_newline(m3, 1)
        m5 == str_replace(m4, <<HELLIP>>, <<".", ".", ".">>)
        m6 == sub_weird_dash(m5, 1)
    IN  str_replace(m6, <<EMDASH>>, <<"-">>)

clean_text(text) ==
    clean_escapes(
        collapse_double_space(
            ftfy_fix_text(
                clean_invisible(clean_punctuation(clean_structure(text))))))

(***************************************************************************)
(* sub_names                                                               *)
(***************************************************************************)

CHAR_TOKEN == <<"{", "{", "c", "h", "a", "r", "}", "}">>

USER_TOKEN == <<"{", "{", "u", "s", "e", "r", "}", "}">>

NAME_IN_MESSAGE_REDACTED ==
    <<"[", "N", "A", "M", "E", "_", "I", "N", "_", "M", "E", "S", "S", "A",
      "G", "E", "_", "R", "E", "D", "A", "C", "T", "E", "D", "]">>

REDACTED == <<"[", "R", "E", "D", "A", "C", "T", "E", "D", "]">>

FIRST_NAME_REDACTED ==
    <<"[", "F", "I", "R", "S", "T", "_", "N", "A", "M", "E", "_", "R", "E",
      "D", "A", "C", "T", "E", "D", "]">>

USERNAME_REDACTED ==
    <<"[", "U", "S", "E", "R", "N", "A", "M", "E", "_", "R", "E", "D", "A",
      "C", "T", "E", "D", "]">>

NAME_REDACTED ==
    <<"[", "N", "A", "M", "E", "_", "R", "E", "D", "A", "C", "T", "E", "D",
      "]">>

\* The list the inner loop of sub_names runs over, with a token that lost
\* its opening bracket.
REDACTION_TOKENS_unbracketed ==
    <<NAME_IN_MESSAGE_REDACTED, REDACTED, FIRST_NAME_REDACTED,
      USERNAME_REDACTED, Tail(NAME_REDACTED)>>

\* The list the inner loop of sub_names runs over, in its order.
REDACTION_TOKENS ==
    <<NAME_IN_MESSAGE_REDACTED, REDACTED, FIRST_NAME_REDACTED,
      USERNAME_REDACTED, NAME_REDACTED>>

\* The replacements sub_names makes on one message, in its order: {{char}}
\* by the character's name, then each redaction token by {{user}}.
sub_steps(char_name) ==
    <<[old |-> CHAR_TOKEN, new |-> char_name]>>
    \o [k \in 1..Len(REDACTION_TOKENS) |->
            [old |-> REDACTION_TOKENS[k], new |-> USER_TOKEN]]

\* msg = msg.replace(old, new) for each step in turn.
RECURSIVE apply_replacements(_, _)
apply_replacements(msg, steps) ==
    IF steps = <<>> THEN msg
    ELSE apply_replacements(
             str_replace(msg, Head(steps).old, Head(steps).new), Tail(steps))

\* The body of the loop of sub_names: what m['message'] becomes.
sub_message(msg, char_name) == apply_replacements(msg, sub_steps(char_name))

sub_names(conv, char_name) ==
    [k \in 1..Len(conv) |->
        [conv[k] EXCEPT !.message = sub_message(@, char_name)]]

(***************************************************************************)
(* The language gate _is_english                                           *)
(***************************************************************************)

\* What detect(turn['message']) does: it returns a language code or raises
\* LangDetectException.  langdetect is a library, seeded once (line 31); a
\* turn of the model carries the outcome of detect on its message.
LangDetectException == "LangDetectException"

DetectOutcomes == {"en", "es", LangDetectException}

\* Lines 163-168 with the except branch dropped (pass): a failed
\* classification leaves the count alone.
not_english_increment_pass(outcome) ==
    IF outcome = LangDetectException THEN 0
    ELSE IF outcome # "en" THEN 1 ELSE 0

\* Lines 163-168: what one turn adds to num_not_english.
not_english_increment(outcome) ==
    IF outcome = LangDetectException THEN 1
    ELSE IF outcome # "en" THEN 1 ELSE 0

\* A threshold is a float of [0, 1]; the model holds it in hundredths.
ThresholdScale == 100

\* Line 170 with >= for >.
ratio_exceeds_or_equals(num, len, thr) == num * ThresholdScale >= thr * len

\* Line 170, for len > 0: num_not_english / len(conversation) > threshold.
ratio_exceeds(num, len, thr) == num * ThresholdScale > thr * len

(***************************************************************************)
(* State                                                                   *)
(***************************************************************************)

VARIABLES
    rf,                    \* the decoded lines of the input file
    pos,                   \* how many lines of rf the loop of main has read
    threshold,             \* config['language_threshold'], in hundredths
    wf,                    \* the entries written to the output file
    stdout,                \* what main has printed
    pc,                    \* where control is in main / clean_conversation
    exception,             \* the exception that left main, if any
    entry,                 \* main: entry
    conversation,          \* the list entry['conversation'] (mutated in place)
    char_name,             \* main: char_name
    i,                     \* turns the running loop has gone through
    num_not_english,       \* _is_english: num_not_english
    is_english_ret,        \* what _is_english returned
    cleaned_conversation,  \* main: cleaned_conversation
    text,                  \* a call of _clean_text on its own: the argument,
    once,                  \*   its result,
    twice,                 \*   the result of _clean_text on that result,
    tpc,                   \*   and how far the calls have got
    sub_conv,              \* a call of sub_names on its own: the conversation,
    sub_name,              \*   the character's name,
    sub_ret,               \*   what it returned,
    spc                    \*   and whether it has been called

main_vars ==
    <<rf, pos, threshold, wf, stdout, pc, exception, entry, conversation,
      char_name, i, num_not_english, is_english_ret, cleaned_conversation>>

text_vars == <<text, once, twice, tpc>>

sub_vars == <<sub_conv, sub_name, sub_ret, spc>>

vars == <<main_vars, text_vars, sub_vars>>

\* Optional[list[dict]]
None == [tag |-> "None"]

List(conv) == [tag |-> "list", value |-> conv]

\* bool(x) for an Optional[list]: None and the empty list are false.
Truthy(x) == x.tag = "list" /\ x.value # <<>>

(***************************************************************************)
(* Inputs                                                                  *)
(***************************************************************************)

MaxTurns == 4

MaxBatch == 2

MaxTextLen == 4

MaxFragments == 2

\* All sequences over S of length at most n.
SeqsUpTo(S, n) == UNION {[1..k -> S] : k \in 0..n}

Aria == <<"A", "r", "i", "a">>

\* "Hi  {{char}}!", English.
TurnEn ==
    [message |-> <<"H", "i", " ", " ">> \o CHAR_TOKEN \o <<"!">>,
     detect |-> "en"]

\* "[REDACTED] hola....", another language.
TurnEs ==
    [message |-> REDACTED \o <<" ", "h", "o", "l", "a", ".", ".", ".", ".">>,
     detect |-> "es"]

\* " ?! ", which the classifier fails on.
TurnFail ==
    [message |-> <<" ", "?", "!", " ">>, detect |-> LangDetectException]

TurnPool == {TurnEn, TurnEs, TurnFail}

\* language_threshold values: 0, 0.24, 0.25, 0.33, 0.5, 0.75, 1.
Thresholds == {0, 24, 25, 33, 50, 75, 100}

Entry(conv) == [conversation |-> conv, bot_name |-> Aria]

\* The records of the batch runs: no turns, all English, half English, one
\* turn in four not English, one turn the classifier fails on.
Records ==
    {Entry(<<>>),
     Entry(<<TurnEn, TurnEn>>),
     Entry(<<TurnEn, TurnEs>>),
     Entry(<<TurnEn, TurnEn, TurnFail, TurnEn>>),
     Entry(<<TurnFail>>)}

\* The alphabet of the messages _clean_text is called on, on its own.
TextAlphabet == {"a", " ", ".", BSL, "-", NL}

Wow == <<"w", "o", "w">>

Periods(n) == [k \in 1..n |-> "."]

MaxPeriods == 7

\* A word and a run of 5 or more periods behind it.
WordsWithPeriods == {w \o Periods(n) : w \in {Wow, <<"a">>}, n \in 5..MaxPeriods}

HelloWorld == <<"H", "e", "l", "l", "o", ".", "W", "o", "r", "l", "d">>

Texts ==
    SeqsUpTo(TextAlphabet, MaxTextLen) \cup WordsWithPeriods \cup {HelloWorld}

\* The pieces the messages sub_names is called on are put together from.
Fragments ==
    {CHAR_TOKEN, REDACTED, FIRST_NAME_REDACTED, <<"[">>, <<"]">>,
     <<" ", "h", "i", " ">>}

RECURSIVE Concat(_)
Concat(parts) == IF parts = <<>> THEN <<>> ELSE Head(parts) \o Concat(Tail(parts))

SubMessages == {Concat(parts) : parts \in SeqsUpTo(Fragments, MaxFragments)}

\* "Aria", "DE", "[REDACTED]", "REDACTED" and the empty name.
SubNames == {Aria, <<"D", "E">>, REDACTED, SubSeq(REDACTED, 2, 9), <<>>}

(***************************************************************************)
(* Initial states                                                          *)
(***************************************************************************)

NoEntry == [conversation |-> <<>>, bot_name |-> <<>>]

\* main before its loop, the files open.
MainStart ==
    /\ pos = 0
    /\ wf = <<>>
    /\ stdout = <<>>
    /\ pc = "for"
    /\ exception = "none"
    /\ entry = NoEntry
    /\ conversation = <<>>
    /\ char_name = <<>>
    /\ i = 0
    /\ num_not_english = 0
    /\ is_english_ret = FALSE
    /\ cleaned_conversation = None

TextIdle == text = <<>> /\ once = <<>> /\ twice = <<>> /\ tpc = "idle"

SubIdle == sub_conv = <<>> /\ sub_name = <<>> /\ sub_ret = <<>> /\ spc = "idle"

\* A batch of up to MaxBatch records.
Init ==
    /\ rf \in SeqsUpTo(Records, MaxBatch)
    /\ threshold \in Thresholds
    /\ MainStart
    /\ TextIdle
    /\ SubIdle

\* One record, its conversation any of up to MaxTurns turns.
InitConv ==
    /\ rf \in {<<Entry(conv)>> : conv \in SeqsUpTo(TurnPool, MaxTurns)}
    /\ threshold \in Thresholds
    /\ MainStart
    /\ TextIdle
    /\ SubIdle

\* main done with an empty file.
MainIdle ==
    /\ rf = <<>>
    /\ threshold = 0
    /\ pos = 0
    /\ wf = <<>>
    /\ stdout = <<>>
    /\ pc = "done"
    /\ exception = "none"
    /\ entry = NoEntry
    /\ conversation = <<>>
    /\ char_name = <<>>
    /\ i = 0
    /\ num_not_english = 0
    /\ is_english_ret = FALSE
    /\ cleaned_conversation = None

InitText ==
    /\ text \in Texts
    /\ once = <<>>
    /\ twice = <<>>
    /\ tpc = "start"
    /\ MainIdle
    /\ SubIdle

InitSub ==
    /\ sub_conv \in {<<[message |-> m]>> : m \in SubMessages}
    /\ sub_name \in SubNames
    /\ sub_ret = <<>>
    /\ spc = "start"
    /\ MainIdle
    /\ TextIdle

(***************************************************************************)
(* main and clean_conversation                                             *)
(***************************************************************************)

\* Lines 48-52: the loop reads the next line and calls clean_conversation,
\* which calls _is_english.
ReadLine ==
    /\ pc = "for"
    /\ pos < Len(rf)
    /\ pos' = pos + 1
    /\ entry' = rf[pos + 1]
    /\ conversation' = rf[pos + 1].conversation
    /\ char_name' = rf[pos + 1].bot_name
    /\ i' = 0
    /\ num_not_english' = 0
    /\ pc' = "is_english"
    /\ UNCHANGED <<rf, threshold, wf, stdout, exception, is_english_ret,
                   cleaned_conversation, text_vars, sub_vars>>

\* Lines 162-168: one turn of the loop of _is_english.
DetectTurn ==
    /\ pc = "is_english"
    /\ i < Len(conversation)
    /\ num_not_english' =
           num_not_english + not_english_increment(conversation[i + 1].detect)
    /\ i' = i + 1
    /\ UNCHANGED <<rf, pos, threshold, wf, stdout, pc, exception, entry,
                   conversation, char_name, is_english_ret,
                   cleaned_conversation, text_vars, sub_vars>>

\* Lines 170-172 indented into the loop: _is_english returns after the
\* first turn.
IsEnglishReturn_in_loop ==
    /\ pc = "is_english"
    /\ i >= 1 \/ Len(conversation) = 0
    /\ IF Len(conversation) = 0
       THEN /\ pc' = "raised"
            /\ exception' = "ZeroDivisionError"
            /\ UNCHANGED is_english_ret
       ELSE /\ pc' = "gate_check"
            /\ is_english_ret' =
                   ~ratio_exceeds(num_not_english, Len(conversation), threshold)
            /\ UNCHANGED exception
    /\ UNCHANGED <<rf, pos, threshold, wf, stdout, entry, conversation,
                   char_name, i, num_not_english, cleaned_conversation,
                   text_vars, sub_vars>>

\* Lines 170-172: the division raises ZeroDivisionError on no turns, which
\* nothing catches; otherwise _is_english returns.
IsEnglishReturn ==
    /\ pc = "is_english"
    /\ i = Len(conversation)
    /\ IF Len(conversation) = 0
       THEN /\ pc' = "raised"
            /\ exception' = "ZeroDivisionError"
            /\ UNCHANGED is_english_ret
       ELSE /\ pc' = "gate_check"
            /\ is_english_ret' =
                   ~ratio_exceeds(num_not_english, Len(conversation), threshold)
            /\ UNCHANGED exception
    /\ UNCHANGED <<rf, pos, threshold, wf, stdout, entry, conversation,
                   char_name, i, num_not_english, cleaned_conversation,
                   text_vars, sub_vars>>

\* Lines 71-72 with the test moved behind the cleaning: a conversation that
\* is turned down has been cleaned in place by then.
GateCheck_late ==
    /\ pc = "gate_check"
    /\ IF is_english_ret
       THEN /\ pc' = "clean_text"
            /\ i' = 0
            /\ UNCHANGED <<cleaned_conversation, conversation>>
       ELSE /\ pc' = "returned"
            /\ cleaned_conversation' = None
            /\ conversation' =
                   sub_names(
                       [k \in 1..Len(conversation) |->
                           [conversation[k] EXCEPT
                               !.message = clean_text(@)]],
                       char_name)
            /\ UNCHANGED i
    /\ UNCHANGED <<rf, pos, threshold, wf, stdout, exception, entry,
                   char_name, num_not_english, is_english_ret,
                   text_vars, sub_vars>>

\* Lines 71-72: return None unless the gate accepted.
GateCheck ==
    /\ pc = "gate_check"
    /\ IF is_english_ret
       THEN /\ pc' = "clean_text"
            /\ i' = 0
            /\ UNCHANGED cleaned_conversation
       ELSE /\ pc' = "returned"
            /\ cleaned_conversation' = None
            /\ UNCHANGED i
    /\ UNCHANGED <<rf, pos, threshold, wf, stdout, exception, entry,
                   conversation, char_name, num_not_english, is_english_ret,
                   text_vars, sub_vars>>

\* Lines 75-76: one turn of the cleaning loop.
CleanTurn ==
    /\ pc = "clean_text"
    /\ i < Len(conversation)
    /\ conversation' =
           [conversation EXCEPT ![i + 1].message = clean_text(@)]
    /\ i' = i + 1
    /\ UNCHANGED <<rf, pos, threshold, wf, stdout, pc, exception, entry,
                   char_name, num_not_english, is_english_ret,
                   cleaned_conversation, text_vars, sub_vars>>

\* Line 79: the cleaning loop is over, sub_names is called.
CallSubNames ==
    /\ pc = "clean_text"
    /\ i = Len(conversation)
    /\ pc' = "sub_names"
    /\ i' = 0
    /\ UNCHANGED <<rf, pos, threshold, wf, stdout, exception, entry,
                   conversation, char_name, num_not_english, is_english_ret,
                   cleaned_conversation, text_vars, sub_vars>>

\* Lines 87-98: one turn of the loop of sub_names.
SubTurn ==
    /\ pc = "sub_names"
    /\ i < Len(conversation)
    /\ conversation' =
           [conversation EXCEPT
               ![i + 1].message = sub_message(@, char_name)]
    /\ i' = i + 1
    /\ UNCHANGED <<rf, pos, threshold, wf, stdout, pc, exception, entry,
                   char_name, num_not_english, is_english_ret,
                   cleaned_conversation, text_vars, sub_vars>>

\* Lines 100 and 81: sub_names and clean_conversation return the list.
ReturnCleaned ==
    /\ pc = "sub_names"
    /\ i = Len(conversation)
    /\ cleaned_conversation' = List(conversation)
    /\ pc' = "returned"
    /\ UNCHANGED <<rf, pos, threshold, wf, stdout, exception, entry,
                   conversation, char_name, i, num_not_english,
                   is_english_ret, text_vars, sub_vars>>

\* Lines 53-57: the entry is written, or the conversation is printed.
WriteOrPrint ==
    /\ pc = "returned"
    /\ IF Truthy(cleaned_conversation)
       THEN /\ entry' = [entry EXCEPT !.conversation = conversation]
            /\ wf' = Append(wf, entry')
            /\ UNCHANGED stdout
       ELSE /\ entry' = [entry EXCEPT !.conversation = cleaned_conversation]
            /\ stdout' =
                   Append(stdout,
                          [line |-> "Conversation is not in English",
                           conversation |-> conversation])
            /\ UNCHANGED wf
    /\ pc' = "for"
    /\ UNCHANGED <<rf, pos, threshold, exception, conversation, char_name, i,
                   num_not_english, is_english_ret, cleaned_conversation,
                   text_vars, sub_vars>>

\* Line 59: the file is read through.
PrintDone ==
    /\ pc = "for"
    /\ pos = Len(rf)
    /\ stdout' = Append(stdout, [line |-> "Done!"])
    /\ pc' = "done"
    /\ UNCHANGED <<rf, pos, threshold, wf, exception, entry, conversation,
                   char_name, i, num_not_english, is_english_ret,
                   cleaned_conversation, text_vars, sub_vars>>

Next ==
    \/ ReadLine
    \/ DetectTurn
    \/ IsEnglishReturn
    \/ GateCheck
    \/ CleanTurn
    \/ CallSubNames
    \/ SubTurn
    \/ ReturnCleaned
    \/ WriteOrPrint
    \/ PrintDone

Spec == Init /\ [][Next]_vars

SpecConv == InitConv /\ [][Next]_vars

(***************************************************************************)
(* _clean_text and sub_names called on their own                           *)
(***************************************************************************)

\* once = _clean_text(text)
CleanText ==
    /\ tpc = "start"
    /\ once' = clean_text(text)
    /\ tpc' = "once"
    /\ UNCHANGED <<text, twice, main_vars, sub_vars>>

\* twice = _clean_text(once)
CleanTextAgain ==
    /\ tpc = "once"
    /\ twice' = clean_text(once)
    /\ tpc' = "twice"
    /\ UNCHANGED <<text, once, main_vars, sub_vars>>

NextText == CleanText \/ CleanTextAgain

SpecText == InitText /\ [][NextText]_vars

\* sub_ret = sub_names(sub_conv, sub_name)
SubNamesCall ==
    /\ spc = "start"
    /\ sub_ret' = sub_names(sub_conv, sub_name)
    /\ spc' = "returned"
    /\ UNCHANGED <<sub_conv, sub_name, main_vars, text_vars>>

NextSub == SubNamesCall

SpecSub == InitSub /\ [][NextSub]_vars

(***************************************************************************)
(* Properties                                                              *)
(***************************************************************************)

\* The conversation of the record main is working on, as the line held it.
Original == rf[pos].conversation

\* The turns detect does not return "en" for, a failed detection included.
NonTargetTurns(conv) == {k \in 1..Len(conv) : conv[k].detect # "en"}

\* _is_english has returned for the record main is working on.
GateReturned ==
    pos > 0 /\ pc \in {"gate_check", "clean_text", "sub_names", "returned"}

\* C1: for a conversation of at least one turn the gate accepts exactly when
\* (turns not in the target language) / (turns) <= threshold; a ratio equal
\* to the threshold is accepted: 1 turn of 4 is accepted at 0.25 and turned
\* down at 0.24.
C1_GateAcceptsIffRatioWithinThreshold ==
    GateReturned =>
        LET n == Cardinality(NonTargetTurns(Original))
            len == Len(Original)
        IN  /\ is_english_ret <=> (n * ThresholdScale <= threshold * len)
            /\ (len = 4 /\ n = 1 /\ threshold = 25) => is_english_ret
            /\ (len = 4 /\ n = 1 /\ threshold = 24) => ~is_english_ret

\* One turn of four not in the target language, threshold 0.25: accepted.
C1_Witness ==
    /\ pc = "gate_check"
    /\ Len(Original) = 4
    /\ Cardinality(NonTargetTurns(Original)) = 1
    /\ threshold = 25
    /\ is_english_ret

\* C2: a conversation of no turns is accepted by the gate and
\* clean_conversation returns an empty cleaned conversation; no error state
\* is reached.
C2_EmptyConversationAccepted ==
    (pos > 0 /\ Original = <<>>) =>
        /\ exception = "none"
        /\ pc = "returned" => cleaned_conversation = List(<<>>)

\* C3: the loop of main gets through every record and prints "Done!": no
\* exception raised while one record is cleaned leaves the loop.
C3_BatchRunsToDone ==
    /\ pc # "raised"
    /\ pc = "done" => pos = Len(rf)

\* The turns among the first n that detect raised on / returned another
\* language for.
FailedTurns(conv, n) == {k \in 1..n : conv[k].detect = LangDetectException}

OtherLanguageTurns(conv, n) ==
    {k \in 1..n : conv[k].detect \notin {"en", LangDetectException}}

\* C4: a turn whose classification raises is counted once in the numerator
\* of the ratio, stays in the denominator, and the failure never leaves the
\* gate.
C4_FailedDetectionCountsAsNonTarget ==
    /\ exception # LangDetectException
    /\ pc = "raised" => Len(conversation) = 0
    /\ pc = "is_english" =>
           num_not_english =
               Cardinality(FailedTurns(conversation, i))
               + Cardinality(OtherLanguageTurns(conversation, i))
    /\ pc = "gate_check" =>
           LET len == Len(conversation)
               n == Cardinality(FailedTurns(conversation, len))
                    + Cardinality(OtherLanguageTurns(conversation, len))
           IN  /\ num_not_english = n
               /\ is_english_ret <=> ~(n * ThresholdScale > threshold * len)

\* One English turn and one failed detection at threshold 0.25: the failed
\* turn makes the ratio 1/2 and the conversation is turned down.
C4_Witness ==
    /\ pc = "gate_check"
    /\ Len(conversation) = 2
    /\ Cardinality(FailedTurns(conversation, 2)) = 1
    /\ OtherLanguageTurns(conversation, 2) = {}
    /\ threshold = 25
    /\ ~is_english_ret

\* What clean_conversation is to return for conv: each message cleaned, then
\* substituted.
Cleaned(conv, name) ==
    [k \in 1..Len(conv) |->
        [conv[k] EXCEPT !.message = sub_message(clean_text(@), name)]]

\* Whether the gate is to accept conv.
Accepts(conv, thr) ==
    /\ Len(conv) > 0
    /\ Cardinality(NonTargetTurns(conv)) * ThresholdScale <= thr * Len(conv)

\* The records among the first n of the file the gate is to accept / to turn
\* down.
AcceptedRecords(n) == {k \in 1..n : Accepts(rf[k].conversation, threshold)}

RejectedRecords(n) ==
    {k \in 1..n :
        Len(rf[k].conversation) > 0
        /\ ~Accepts(rf[k].conversation, threshold)}

ReportLines ==
    {n \in 1..Len(stdout) : stdout[n].line = "Conversation is not in English"}

\* C5: a record is written exactly when the gate accepted its conversation,
\* and with the cleaned turns; a record turned down is reported with a line
\* on stdout; every record of the input ends as one or the other.
C5_EveryRecordWrittenOrReported ==
    /\ \A n \in 1..Len(wf) :
           \E k \in AcceptedRecords(pos) :
               wf[n] = [rf[k] EXCEPT
                           !.conversation = Cleaned(@, rf[k].bot_name)]
    /\ Cardinality(ReportLines) <= Cardinality(RejectedRecords(pos))
    /\ pc \in {"done", "raised"} =>
           /\ Len(wf) = Cardinality(AcceptedRecords(Len(rf)))
           /\ Cardinality(ReportLines) = Cardinality(RejectedRecords(Len(rf)))
           /\ Len(wf) + Cardinality(ReportLines) = Len(rf)

\* C6: clean_conversation goes Start -> GateCheck -> Rejected, or Accepted
\* -> Normalize -> Substitute -> Done: no turn is cleaned before the gate
\* has classified every turn and accepted, no turn is substituted before
\* every turn is cleaned, and what is returned on acceptance is, turn for
\* turn, substitute(normalize(original message)).
C6_GateThenNormalizeThenSubstitute ==
    pos > 0 =>
        /\ pc \in {"is_english", "gate_check"} => conversation = Original
        /\ pc = "gate_check" => i = Len(Original)
        /\ pc \in {"clean_text", "sub_names"} =>
               /\ is_english_ret
               /\ Len(conversation) = Len(Original)
        /\ pc = "clean_text" =>
               \A k \in 1..Len(Original) :
                   conversation[k].message =
                       IF k <= i THEN clean_text(Original[k].message)
                       ELSE Original[k].message
        /\ pc = "sub_names" =>
               \A k \in 1..Len(Original) :
                   conversation[k].message =
                       IF k <= i
                       THEN sub_message(clean_text(Original[k].message),
                                        char_name)
                       ELSE clean_text(Original[k].message)
        /\ pc = "returned" =>
               cleaned_conversation =
                   IF is_english_ret THEN List(Cleaned(Original, char_name))
                   ELSE None

\* An accepted conversation of two turns or more is returned with messages
\* that cleaning and substitution both changed.
C6_Witness ==
    /\ pc = "returned"
    /\ is_english_ret
    /\ Len(Original) >= 2
    /\ cleaned_conversation = List(Cleaned(Original, char_name))
    /\ \A k \in 1..Len(Original) :
           /\ clean_text(Original[k].message) # Original[k].message
           /\ cleaned_conversation.value[k].message
                  # clean_text(Original[k].message)

\* The permutations of the redaction tokens' places.
TokenOrders ==
    {p \in [1..Len(REDACTION_TOKENS) -> 1..Len(REDACTION_TOKENS)] :
        \A a, b \in 1..Len(REDACTION_TOKENS) : a # b => p[a] # p[b]}

redaction_steps(p) ==
    [k \in 1..Len(REDACTION_TOKENS) |->
        [old |-> REDACTION_TOKENS[p[k]], new |-> USER_TOKEN]]

char_step(name) == [old |-> CHAR_TOKEN, new |-> name]

\* {{char}} replaced before / after the redaction tokens, taken in order p.
CharFirst(msg, name, p) ==
    apply_replacements(msg, <<char_step(name)>> \o redaction_steps(p))

CharLast(msg, name, p) ==
    apply_replacements(msg, redaction_steps(p) \o <<char_step(name)>>)

Contains(s, part) == \E q \in 1..(Len(s) + 1) : StartsWithAt(s, q, part)

\* A name that cannot make up a redaction token with the text around it: it
\* holds no bracket and does not occur inside a redaction token (as the
\* empty name does).
BracketFreeName(name) ==
    /\ \A k \in 1..Len(name) : name[k] \notin {"[", "]"}
    /\ \A t \in 1..Len(REDACTION_TOKENS) : ~Contains(REDACTION_TOKENS[t], name)

\* C7 as stated: whichever order the replacements are applied in, {{char}}
\* before or after the redaction tokens and these in any order, the message
\* sub_names returns is the same.
C7_AnyOrderSameMessage ==
    spc = "returned" =>
        \A p \in TokenOrders :
            /\ CharFirst(sub_conv[1].message, sub_name, p) = sub_ret[1].message
            /\ CharLast(sub_conv[1].message, sub_name, p) = sub_ret[1].message

\* C7 as amended: the redaction tokens may be replaced in any order behind
\* {{char}}; {{char}} may be replaced after them when the name holds no
\* bracket and does not occur inside a redaction token.
C7_AnyOrderSameMessageForBracketFreeName ==
    spc = "returned" =>
        \A p \in TokenOrders :
            /\ CharFirst(sub_conv[1].message, sub_name, p) = sub_ret[1].message
            /\ BracketFreeName(sub_name) =>
                   CharLast(sub_conv[1].message, sub_name, p)
                       = sub_ret[1].message

\* "{{char}}[REDACTED]" with the name Aria comes back as "Aria{{user}}".
C7_Witness ==
    /\ spc = "returned"
    /\ BracketFreeName(sub_name)
    /\ sub_conv[1].message = CHAR_TOKEN \o REDACTED
    /\ sub_name = Aria
    /\ sub_ret[1].message = Aria \o USER_TOKEN

\* C8: _clean_text(_clean_text(m)) = _clean_text(m) for every message m.
C8_CleanTextIdempotent == tpc = "twice" => twice = once

\* C9: a word with a run of 5 or more periods behind it is cleaned to the
\* word and three periods; "wow....." to "wow...".
C9_PeriodRunBecomesThree ==
    (tpc # "start" /\ text \in WordsWithPeriods) =>
        \E w \in {Wow, <<"a">>} :
            /\ StartsWithAt(text, 1, w \o <<".">>)
            /\ once = w \o Periods(3)

\* C10: when the gate turns a conversation down, clean_conversation returns
\* None and the caller's conversation is as it was, message for message, so
\* the conversation main prints is the original one.
C10_RejectedConversationUntouched ==
    (pos > 0 /\ ~is_english_ret) =>
        /\ pc = "returned" =>
               /\ cleaned_conversation = None
               /\ conversation = Original
        /\ pc = "for" =>
               /\ conversation = Original
               /\ stdout # <<>>
               /\ stdout[Len(stdout)] =
                      [line |-> "Conversation is not in English",
                       conversation |-> Original]

\* A conversation that cleaning would have changed is turned down and
\* printed.
C10_Witness ==
    /\ pos > 0
    /\ pc = "for"
    /\ ~is_english_ret
    /\ stdout # <<>>
    /\ stdout[Len(stdout)].conversation = Original
    /\ Cleaned(Original, char_name) # Original

====
